---- MODULE Spec2Model ----
(***************************************************************************)
(* Model of src/src/trans_shm.c: the shared-memory emulation of the        *)
(* mooshika RDMA transport.  Two processes (the server, which calls        *)
(* msk_accept_one, and the client, which calls msk_connect) each own one   *)
(* msk_trans_t with a sender thread, a receiver thread and a calling       *)
(* (application) thread.  They share one mailbox segment (SHM_KEY) and     *)
(* three SysV semaphores (SHM_SEM_KEY, SERVER_SEND_SEM_KEY,                *)
(* CLIENT_SEND_SEM_KEY).                                                   *)
(*                                                                         *)
(* Threads are interleaved at their blocking points (pthread_mutex_lock,   *)
(* pthread_cond_wait, semop) and at every access that another thread can   *)
(* race with.  The receiver thread does not take trans->lock around its    *)
(* queue accesses, so its steps and those of msk_post_n_recv are split at  *)
(* each access of ctx_head / ctx_last.                                     *)
(*                                                                         *)
(* Platform facts used (Linux, glibc): a semaphore made by semget starts   *)
(* at 0; semop(0) completes as soon as the value is 0; a default mutex     *)
(* keeps no owner check, so pthread_cond_wait and pthread_mutex_unlock     *)
(* release a mutex locked by another thread; malloc hands out a fresh      *)
(* address for every queue node.                                           *)
(***************************************************************************)
EXTENDS Integers, Sequences, FiniteSets, TLC

\* ---------------------------------------------------------------- bounds
MaxPosts == 3       \* requests posted in one session, both processes and directions together
MaxDepth == 2       \* largest attr->sq_depth / attr->rq_depth tried

\* ------------------------------------------------------ program constants
SHM_SEM_KEY == 4241
SERVER_SEND_SEM_KEY == 4242
CLIENT_SEND_SEM_KEY == 4243
RECV_SEM == 0
SEND_SEM == 1
SHM_SEM == 2

NULL == 0           \* the null pointer
Wild == -1          \* a pointer value that addresses no queue node

Procs == {"srv", "cli"}
Peer(p) == IF p = "srv" THEN "cli" ELSE "srv"
Keys == {SHM_SEM_KEY, SERVER_SEND_SEM_KEY, CLIENT_SEND_SEM_KEY}

\* the key msk_setup_buffer gives the send_cq / recv_cq / qp_context semaphore
SemKey(p, which) ==
    IF which = SHM_SEM THEN SHM_SEM_KEY
    ELSE IF which = SEND_SEM
         THEN (IF p = "srv" THEN SERVER_SEND_SEM_KEY ELSE CLIENT_SEND_SEM_KEY)
         ELSE (IF p = "srv" THEN CLIENT_SEND_SEM_KEY ELSE SERVER_SEND_SEM_KEY)

VARIABLES
    phase,      \* application thread: which lifecycle call it has reached
    apc,        \* application thread: position inside the current post / wait call
    acall,      \* application thread: locals of the current call (callback, elem, last read)
    lock,       \* trans->lock: "free" or the thread that locked it
    wmutex,     \* the private mutex of msk_wait_n_send / msk_wait_n_recv (TRUE = locked)
    spc, sctx,  \* sender thread: position, its local ctx
    rpc, rctx,  \* receiver thread: position, its local ctx
    sq_depth, rq_depth,     \* trans->sq_depth, trans->rq_depth
    send_buf, recv_buf,     \* trans->send_buf, trans->recv_buf: the context pools
    snode, rnode,           \* the heap of msk_list_t nodes of each direction
    shead, slast,           \* send_cq->cq_context: ctx_head, ctx_last
    rhead, rlast,           \* recv_cq->cq_context: ctx_head, ctx_last
    nsend, nrecv,           \* requests posted so far per direction
    sem,        \* the SysV semaphores by key: whether the set exists, and its value
    mbox,       \* the shared-memory mailbox: size and data
    unread,     \* the process the mailbox message was signalled to, until it copies it
    sdone, rdone,   \* completion callbacks invoked so far, in order
    wret,       \* the requests whose msk_wait_n_* call has returned
    state,      \* trans->state
    dcb,        \* number of calls of trans->disconnect_callback
    crashed,    \* the process has faulted (a wild or null pointer was followed)
    res,        \* msk_connect / msk_accept_one: failed step, return value, what the
                \* trans still holds of what msk_setup_buffer acquired, threads created
    shm,        \* the shared-memory segment of key SHM_KEY exists
    uaf,        \* the accesses made to a field of an msk_list_t already freed
    stub        \* the last msk_post_n_read / _write / msk_wait_n_read / _write call returned

vars == <<phase, apc, acall, lock, wmutex, spc, sctx, rpc, rctx, sq_depth, rq_depth,
          send_buf, recv_buf, snode, rnode, shead, slast, rhead, rlast, nsend, nrecv,
          sem, mbox, unread, sdone, rdone, wret, state, dcb, crashed, res, shm, uaf,
          stub>>

\* ---------------------------------------------------------------- values
\* msk_data_t: the k-th send buffer of process p (distinct payloads)
Payload(p, k) == [size |-> k, data |-> (IF p = "srv" THEN 10 ELSE 20) + k]
NoData == [size |-> 0, data |-> 0]

\* struct msk_ctx after memset(.., 0, ..)
ZeroCtx == [used |-> FALSE, pdata |-> NoData, callback |-> "none", callback_arg |-> 0]

\* struct msk_list: live is FALSE before malloc and after free
NoNode == [ctx |-> 0, next |-> NULL, live |-> FALSE]

NoCall == [callback |-> "none", dir |-> "none", elem |-> NULL, lastl |-> NULL]

\* what msk_setup_buffer acquires, in the order it acquires it
SetupSteps == <<"recv_buf", "send_buf", "qp", "qp_context", "shmid", "shmaddr", "shm_semid",
                "send_cq", "send_cq_context", "send_semid",
                "recv_cq", "recv_cq_context", "recv_semid">>

AllRes == {SetupSteps[i] : i \in 1..Len(SetupSteps)}

\* what msk_destroy_buffer leaves of a fully set-up trans: it never calls shmdt,
\* never removes the SHM_SEM semaphore set and never frees qp->recv_cq
DestroyLeaves == {"shmaddr", "shm_semid", "recv_cq"}

\* before msk_connect / msk_accept_one: nothing failed, nothing returned, nothing held
NoRes == [fault |-> "none", ret |-> "none", held |-> {}, threads |-> FALSE]

\* no stub call has returned yet
NoStub == [name |-> "none", ret |-> "none"]

Min(S) == CHOOSE x \in S : \A y \in S : x <= y

\* requests posted so far in the session
Posted == nsend["srv"] + nsend["cli"] + nrecv["srv"] + nrecv["cli"]

Alive(p) == ~crashed[p] /\ phase[p] # "destroyed"

\* ------------------------------------------------------------------ Init
\* msk_init: state MSK_INIT, queue depths from attr (0 means 5; the model
\* tries every depth in 1..MaxDepth), lock and cond initialised.
Init ==
    /\ phase = [p \in Procs |-> "init"]
    /\ apc = [p \in Procs |-> "idle"]
    /\ acall = [p \in Procs |-> NoCall]
    /\ lock = [p \in Procs |-> "free"]
    /\ wmutex = [p \in Procs |-> FALSE]
    /\ spc = [p \in Procs |-> "none"]
    /\ sctx = [p \in Procs |-> 0]
    /\ rpc = [p \in Procs |-> "none"]
    /\ rctx = [p \in Procs |-> 0]
    /\ \E d \in 1..MaxDepth :
          /\ sq_depth = [p \in Procs |-> d]
          /\ rq_depth = [p \in Procs |-> d]
    /\ send_buf = [p \in Procs |-> [i \in 1..MaxDepth |-> ZeroCtx]]
    /\ recv_buf = [p \in Procs |-> [i \in 1..MaxDepth |-> ZeroCtx]]
    /\ snode = [p \in Procs |-> [n \in 1..MaxPosts |-> NoNode]]
    /\ rnode = [p \in Procs |-> [n \in 1..MaxPosts |-> NoNode]]
    /\ shead = [p \in Procs |-> NULL]
    /\ slast = [p \in Procs |-> NULL]
    /\ rhead = [p \in Procs |-> NULL]
    /\ rlast = [p \in Procs |-> NULL]
    /\ nsend = [p \in Procs |-> 0]
    /\ nrecv = [p \in Procs |-> 0]
    /\ sem = [k \in Keys |-> [exists |-> FALSE, val |-> 0]]
    /\ mbox = NoData
    /\ unread = "none"
    /\ sdone = [p \in Procs |-> <<>>]
    /\ rdone = [p \in Procs |-> <<>>]
    /\ wret = [p \in Procs |-> {}]
    /\ state = [p \in Procs |-> "MSK_INIT"]
    /\ dcb = [p \in Procs |-> 0]
    /\ crashed = [p \in Procs |-> FALSE]
    /\ res = [p \in Procs |-> NoRes]
    /\ shm = FALSE
    /\ uaf = [p \in Procs |-> {}]
    /\ stub = [p \in Procs |-> NoStub]

\* ------------------------------------------------------------ primitives
\* semget(key, 1, 0666 | IPC_CREAT): attach to the set, or create it at 0
semget(s, k) == IF s[k].exists THEN s ELSE [s EXCEPT ![k] = [exists |-> TRUE, val |-> 0]]

\* semop(+1): never blocks; fails (result ignored by every caller) when the set is gone
SemUp(s, k) == IF s[k].exists THEN [s EXCEPT ![k].val = @ + 1] ELSE s

\* semop(-1) can complete
CanDown(s, k) == s[k].exists /\ s[k].val > 0

SemDown(s, k) == [s EXCEPT ![k].val = @ - 1]

\* where a finalize call continues once its semop(SHM_SEM, 0) has completed
ZeroPass(p) == IF p = "srv" THEN "fin_rel" ELSE "run"

\* the kernel completes every pending semop(0) on SHM_SEM when its value becomes 0
ZeroWake(ph, s) ==
    IF s[SHM_SEM_KEY].val = 0
    THEN [p \in Procs |-> IF ph[p] = "fin_zwait" THEN ZeroPass(p) ELSE ph[p]]
    ELSE ph

\* pthread_cond_broadcast(&trans->cond): the sender thread, if it waits
WakeSender(sp, p) == [sp EXCEPT ![p] = IF @ = "wait" THEN "woken" ELSE @]

\* pthread_cond_broadcast(&trans->cond): a post call waiting for a free context
WakePoster(ap, p) ==
    [ap EXCEPT ![p] = IF @ = "psend_wait" THEN "psend_woken"
                      ELSE IF @ = "precv_wait" THEN "precv_woken" ELSE @]

\* what reading the next field of a node returns once the node has been freed:
\* the value left there, or what the allocator or a later owner put in its place
FreedRead(v) == {v, NULL, Wild}

\* ctx->callback(trans, ctx->pdata, ctx->callback_arg) with msk_wait_callback:
\* pthread_mutex_unlock(arg); any other callback leaves the private mutex alone
msk_wait_callback(w, p, c) == IF c.callback = "wait" THEN [w EXCEPT ![p] = FALSE] ELSE w

\* ------------------------------------------------ msk_setup_buffer, connect
\* msk_setup_buffer: both pools zeroed, shmget/shmat, the three semget calls
msk_setup_buffer(s, p) ==
    semget(semget(semget(s, SHM_SEM_KEY), SemKey(p, SEND_SEM)), SemKey(p, RECV_SEM))

\* a connect that creates the threads without having locked trans->lock
StartTransUnlocked(p) ==
    /\ phase[p] = "init"
    /\ sem' = SemUp(msk_setup_buffer(sem, p), SHM_SEM_KEY)
    /\ send_buf' = [send_buf EXCEPT ![p] = [i \in 1..MaxDepth |-> ZeroCtx]]
    /\ recv_buf' = [recv_buf EXCEPT ![p] = [i \in 1..MaxDepth |-> ZeroCtx]]
    /\ lock' = [lock EXCEPT ![p] = "free"]
    /\ spc' = [spc EXCEPT ![p] = "start"]
    /\ rpc' = [rpc EXCEPT ![p] = "wait"]
    /\ phase' = [phase EXCEPT ![p] = "setup"]
    /\ res' = [res EXCEPT ![p] = [fault |-> "none", ret |-> "0", held |-> AllRes,
                                  threads |-> TRUE]]
    /\ shm' = TRUE
    /\ UNCHANGED <<uaf, stub,
                   apc, acall, wmutex, sctx, rctx, sq_depth, rq_depth, snode, rnode,
                   shead, slast, rhead, rlast, nsend, nrecv, mbox, unread, sdone,
                   rdone, wret, state, dcb, crashed>>

\* msk_accept_one / msk_connect: setup, lock trans->lock, create both threads,
\* semop(SHM_SEM, +1); the lock is left locked
StartTrans(p) ==
    /\ phase[p] = "init"
    /\ sem' = SemUp(msk_setup_buffer(sem, p), SHM_SEM_KEY)
    /\ send_buf' = [send_buf EXCEPT ![p] = [i \in 1..MaxDepth |-> ZeroCtx]]
    /\ recv_buf' = [recv_buf EXCEPT ![p] = [i \in 1..MaxDepth |-> ZeroCtx]]
    /\ lock' = [lock EXCEPT ![p] = "app"]
    /\ spc' = [spc EXCEPT ![p] = "start"]
    /\ rpc' = [rpc EXCEPT ![p] = "wait"]
    /\ phase' = [phase EXCEPT ![p] = "setup"]
    /\ res' = [res EXCEPT ![p] = [fault |-> "none", ret |-> "0", held |-> AllRes,
                                  threads |-> TRUE]]
    /\ shm' = TRUE
    /\ UNCHANGED <<uaf, stub,
                   apc, acall, wmutex, sctx, rctx, sq_depth, rq_depth, snode, rnode,
                   shead, slast, rhead, rlast, nsend, nrecv, mbox, unread, sdone,
                   rdone, wret, state, dcb, crashed>>

msk_accept_one == StartTrans("srv")

msk_connect == StartTrans("cli")

\* ------------------------------------------ msk_setup_buffer, a step fails
\* the steps msk_setup_buffer has done when it reaches step f
Before(f) ==
    LET n == CHOOSE i \in 1..Len(SetupSteps) : SetupSteps[i] = f
    IN  {SetupSteps[i] : i \in 1..(n - 1)}

\* the three semget calls, and the key each is given
SemgetSteps == {"shm_semid", "send_semid", "recv_semid"}

SemKeyOf(p, r) ==
    IF r = "shm_semid" THEN SHM_SEM_KEY
    ELSE IF r = "send_semid" THEN SemKey(p, SEND_SEM) ELSE SemKey(p, RECV_SEM)

\* What msk_connect / msk_accept_one does when step f of msk_setup_buffer fails:
\* the steps done, the value returned, what is left held, whether the threads
\* were created, whether the process faulted.
\*   recv_buf: return ENOMEM.
\*   send_buf, qp: msk_destroy_buffer frees the pools and reads trans->qp->send_cq
\*     with trans->qp NULL (line 262).
\*   qp_context, send_cq_context: msk_destroy_buffer reads qp->send_cq (qp->recv_cq),
\*     a field of the malloc'ed qp never written: a fault, or the call gets through.
\*   shmget, shmat: return errno, nothing released.
\*   semget: it returns -1, the test is "if (!semid)": not noticed, the call goes on
\*     and returns 0.
\*   send_cq, recv_cq: msk_destroy_buffer reads qp->send_cq->cq_context
\*     (qp->recv_cq->cq_context) through the NULL just stored.
\*   recv_cq_context: msk_destroy_buffer runs to its end; return ENOMEM.
SetupFault(f) ==
    LET Fault(h) == [done |-> Before(f), ret |-> "none", held |-> h,
                     threads |-> FALSE, crash |-> TRUE]
        Err(e, h) == [done |-> Before(f), ret |-> e, held |-> h,
                      threads |-> FALSE, crash |-> FALSE]
    IN  CASE f = "recv_buf" -> {Err("ENOMEM", {})}
          [] f \in {"send_buf", "qp"} -> {Fault({})}
          [] f = "qp_context" -> {Fault({}), Err("ENOMEM", {})}
          [] f \in {"shmid", "shmaddr"} -> {Err("errno", Before(f))}
          [] f \in SemgetSteps ->
                {[done |-> AllRes \ {f}, ret |-> "0", held |-> AllRes \ {f},
                  threads |-> TRUE, crash |-> FALSE]}
          [] f = "send_cq" -> {Fault({"shmid", "shm_semid"})}
          [] f = "send_cq_context" ->
                {Fault({"shmid", "shm_semid"}), Err("ENOMEM", {"shmaddr", "shm_semid"})}
          [] f = "recv_cq" -> {Fault({"shmid", "shm_semid"})}
          [] f = "recv_cq_context" -> {Err("ENOMEM", {"recv_cq", "shmaddr", "shm_semid"})}

\* the semaphore sets after outcome o: a set whose semget was done exists if its
\* id is still held and is removed if msk_destroy_buffer got to its semctl
SemAfter(s, p, o) ==
    [k \in Keys |->
        LET r == CHOOSE x \in SemgetSteps : SemKeyOf(p, x) = k
        IN  IF r \notin o.done THEN s[k]
            ELSE IF r \in o.held THEN semget(s, k)[k]
            ELSE [exists |-> FALSE, val |-> 0]]

\* msk_accept_one / msk_connect when a step of msk_setup_buffer fails.  With the
\* failure unnoticed the call locks trans->lock, creates both threads, does
\* semop(SHM_SEM, +1) and returns 0; the run of a connection holding a semaphore
\* id of -1 is not followed further.
StartTransFault(p) ==
    /\ phase[p] = "init"
    /\ \E f \in AllRes : \E o \in SetupFault(f) :
          /\ res' = [res EXCEPT ![p] = [fault |-> f, ret |-> o.ret, held |-> o.held,
                                        threads |-> o.threads]]
          /\ crashed' = [crashed EXCEPT ![p] = o.crash]
          /\ phase' = [phase EXCEPT ![p] = IF o.ret = "0" THEN "badsem" ELSE "failed"]
          /\ shm' = IF "shmid" \in o.done THEN "shmid" \in o.held ELSE shm
          /\ sem' = IF o.threads /\ "shm_semid" \in o.done
                    THEN SemUp(SemAfter(sem, p, o), SHM_SEM_KEY)
                    ELSE SemAfter(sem, p, o)
          /\ lock' = [lock EXCEPT ![p] = IF o.threads THEN "app" ELSE @]
    /\ UNCHANGED <<uaf, stub, apc, acall, wmutex, spc, sctx, rpc, rctx, sq_depth,
                   rq_depth, send_buf, recv_buf, snode, rnode, shead, slast, rhead,
                   rlast, nsend, nrecv, mbox, unread, sdone, rdone, wret, state, dcb>>

\* msk_finalize_accept / msk_finalize_connect, first call: semop(SHM_SEM, -1)
FinalizeAcquire(p) ==
    /\ Alive(p) /\ phase[p] = "setup" /\ apc[p] = "idle"
    /\ CanDown(sem, SHM_SEM_KEY)
    /\ sem' = SemDown(sem, SHM_SEM_KEY)
    /\ phase' = [ZeroWake(phase, sem') EXCEPT ![p] = "fin_zero"]
    /\ UNCHANGED <<res, shm, uaf, stub,
                   apc, acall, lock, wmutex, spc, sctx, rpc, rctx, sq_depth, rq_depth,
                   send_buf, recv_buf, snode, rnode, shead, slast, rhead, rlast,
                   nsend, nrecv, mbox, unread, sdone, rdone, wret, state, dcb, crashed>>

\* second call: semop(SHM_SEM, 0) returns at once at value 0, else the caller sleeps
FinalizeProbe(p) ==
    /\ Alive(p) /\ phase[p] = "fin_zero"
    /\ phase' = [phase EXCEPT ![p] = IF sem[SHM_SEM_KEY].val = 0 THEN ZeroPass(p)
                                     ELSE "fin_zwait"]
    /\ UNCHANGED <<res, shm, uaf, stub,
                   apc, acall, lock, wmutex, spc, sctx, rpc, rctx, sq_depth, rq_depth,
                   send_buf, recv_buf, snode, rnode, shead, slast, rhead, rlast,
                   nsend, nrecv, sem, mbox, unread, sdone, rdone, wret, state, dcb,
                   crashed>>

\* msk_finalize_accept only, third call: semop(SHM_SEM, +1); return 0
msk_finalize_accept_release ==
    /\ Alive("srv") /\ phase["srv"] = "fin_rel"
    /\ sem' = SemUp(sem, SHM_SEM_KEY)
    /\ phase' = [phase EXCEPT !["srv"] = "run"]
    /\ UNCHANGED <<res, shm, uaf, stub,
                   apc, acall, lock, wmutex, spc, sctx, rpc, rctx, sq_depth, rq_depth,
                   send_buf, recv_buf, snode, rnode, shead, slast, rhead, rlast,
                   nsend, nrecv, mbox, unread, sdone, rdone, wret, state, dcb, crashed>>

\* ------------------------------------------------------- msk_send_thread
\* first pthread_cond_wait(&trans->cond, &trans->lock): the thread has not locked
\* the mutex; the wait releases the lock msk_connect / msk_accept_one left locked
msk_send_thread_start(p) ==
    /\ Alive(p) /\ spc[p] = "start"
    /\ lock' = [lock EXCEPT ![p] = "free"]
    /\ spc' = [spc EXCEPT ![p] = "wait"]
    /\ UNCHANGED <<res, shm, uaf, stub,
                   phase, apc, acall, wmutex, sctx, rpc, rctx, sq_depth, rq_depth,
                   send_buf, recv_buf, snode, rnode, shead, slast, rhead, rlast,
                   nsend, nrecv, sem, mbox, unread, sdone, rdone, wret, state, dcb,
                   crashed>>

\* pthread_cond_wait returns after a broadcast, with the lock taken again;
\* if (sem->ctx_head) ctx = sem->ctx_head->ctx; else wait again
msk_send_thread_wake(p) ==
    /\ Alive(p) /\ spc[p] = "woken" /\ lock[p] = "free"
    /\ IF shead[p] = NULL
       THEN /\ spc' = [spc EXCEPT ![p] = "wait"]
            /\ UNCHANGED <<lock, sctx, crashed>>
       ELSE IF shead[p] = Wild
       THEN /\ crashed' = [crashed EXCEPT ![p] = TRUE]
            /\ lock' = [lock EXCEPT ![p] = "send"]
            /\ UNCHANGED <<spc, sctx>>
       ELSE /\ sctx' = [sctx EXCEPT ![p] = snode[p][shead[p]].ctx]
            /\ lock' = [lock EXCEPT ![p] = "send"]
            /\ spc' = [spc EXCEPT ![p] = "acq"]
            /\ UNCHANGED crashed
    /\ UNCHANGED <<res, shm, uaf, stub,
                   phase, apc, acall, wmutex, rpc, rctx, sq_depth, rq_depth,
                   send_buf, recv_buf, snode, rnode, shead, slast, rhead, rlast,
                   nsend, nrecv, sem, mbox, unread, sdone, rdone, wret, state, dcb>>

\* msk_semop(trans, SHM_SEM, -1)
msk_send_thread_acquire(p) ==
    /\ Alive(p) /\ spc[p] = "acq"
    /\ CanDown(sem, SHM_SEM_KEY)
    /\ sem' = SemDown(sem, SHM_SEM_KEY)
    /\ phase' = ZeroWake(phase, sem')
    /\ spc' = [spc EXCEPT ![p] = "cs"]
    /\ UNCHANGED <<res, shm, uaf, stub,
                   apc, acall, lock, wmutex, sctx, rpc, rctx, sq_depth, rq_depth,
                   send_buf, recv_buf, snode, rnode, shead, slast, rhead, rlast,
                   nsend, nrecv, mbox, unread, sdone, rdone, wret, state, dcb, crashed>>

\* a sender that clears the context's used flag as soon as the message is written
msk_send_thread_write_release(p) ==
    /\ Alive(p) /\ spc[p] = "cs"
    /\ mbox' = send_buf[p][sctx[p]].pdata
    /\ unread' = Peer(p)
    /\ sem' = SemUp(SemUp(sem, SHM_SEM_KEY), SemKey(p, SEND_SEM))
    /\ spc' = [spc EXCEPT ![p] = "cb"]
    /\ send_buf' = [send_buf EXCEPT ![p][sctx[p]].used = FALSE]
    /\ UNCHANGED <<res, shm, uaf, stub, phase, apc, acall, lock, wmutex, sctx, rpc, rctx,
                   sq_depth, rq_depth, recv_buf, snode, rnode, shead, slast, rhead,
                   rlast, nsend, nrecv, sdone, rdone, wret, state, dcb, crashed>>

\* shm->shm->size = ..; memcpy(&shm->shm->data, ..); semop(SHM_SEM, +1); semop(SEND_SEM, +1)
msk_send_thread_write(p) ==
    /\ Alive(p) /\ spc[p] = "cs"
    /\ mbox' = send_buf[p][sctx[p]].pdata
    /\ unread' = Peer(p)
    /\ sem' = SemUp(SemUp(sem, SHM_SEM_KEY), SemKey(p, SEND_SEM))
    /\ spc' = [spc EXCEPT ![p] = "cb"]
    /\ UNCHANGED <<res, shm, uaf, stub,
                   phase, apc, acall, lock, wmutex, sctx, rpc, rctx, sq_depth, rq_depth,
                   send_buf, recv_buf, snode, rnode, shead, slast, rhead, rlast,
                   nsend, nrecv, sdone, rdone, wret, state, dcb, crashed>>

\* the callback; free(sem->ctx_head); sem->ctx_head = sem->ctx_head->next (read from
\* the node just freed); if (!sem->ctx_head) sem->ctx_last = NULL; ctx->used = 0;
\* pthread_cond_broadcast; then pthread_cond_wait again, which releases the lock
msk_send_thread_complete(p) ==
    /\ Alive(p) /\ spc[p] = "cb"
    /\ LET c == send_buf[p][sctx[p]]
           h == shead[p]
       IN  /\ sdone' = [sdone EXCEPT ![p] = Append(@, c.callback_arg)]
           /\ wmutex' = msk_wait_callback(wmutex, p, c)
           /\ snode' = [snode EXCEPT ![p][h].live = FALSE]
           /\ \E nx \in FreedRead(snode[p][h].next) :
                 /\ shead' = [shead EXCEPT ![p] = nx]
                 /\ slast' = [slast EXCEPT ![p] = IF nx = NULL THEN NULL ELSE @]
           /\ send_buf' = [send_buf EXCEPT ![p][sctx[p]].used = FALSE]
    /\ uaf' = [uaf EXCEPT ![p] = @ \cup {"send ctx_head->next read"}]
    /\ apc' = WakePoster(apc, p)
    /\ lock' = [lock EXCEPT ![p] = "free"]
    /\ spc' = [spc EXCEPT ![p] = "wait"]
    /\ UNCHANGED <<res, shm, stub,
                   phase, acall, sctx, rpc, rctx, sq_depth, rq_depth, recv_buf, rnode,
                   rhead, rlast, nsend, nrecv, sem, mbox, unread, rdone, wret, state,
                   dcb, crashed>>

\* ------------------------------------------------------- msk_recv_thread
\* a receiver that, finding the queue empty, goes on as if it had served a request
msk_recv_thread_wait_busy(p) ==
    /\ Alive(p) /\ rpc[p] = "wait"
    /\ CanDown(sem, SemKey(p, RECV_SEM))
    /\ sem' = SemDown(sem, SemKey(p, RECV_SEM))
    /\ IF rhead[p] = NULL
       THEN /\ rpc' = [rpc EXCEPT ![p] = "bcast"]
            /\ UNCHANGED <<rctx, crashed>>
       ELSE IF rhead[p] = Wild
       THEN /\ crashed' = [crashed EXCEPT ![p] = TRUE]
            /\ UNCHANGED <<rpc, rctx>>
       ELSE /\ rctx' = [rctx EXCEPT ![p] = rnode[p][rhead[p]].ctx]
            /\ rpc' = [rpc EXCEPT ![p] = "acq"]
            /\ UNCHANGED crashed
    /\ UNCHANGED <<res, shm, uaf, stub, phase, apc, acall, lock, wmutex, spc, sctx,
                   sq_depth, rq_depth, send_buf, recv_buf, snode, rnode, shead, slast,
                   rhead, rlast, nsend, nrecv, mbox, unread, sdone, rdone, wret, state,
                   dcb>>

\* msk_semop(trans, RECV_SEM, -1) succeeds; if (sem->ctx_head) ctx = sem->ctx_head->ctx
msk_recv_thread_wait(p) ==
    /\ Alive(p) /\ rpc[p] = "wait"
    /\ CanDown(sem, SemKey(p, RECV_SEM))
    /\ sem' = SemDown(sem, SemKey(p, RECV_SEM))
    /\ IF rhead[p] = NULL
       THEN UNCHANGED <<rpc, rctx, crashed>>
       ELSE IF rhead[p] = Wild
       THEN /\ crashed' = [crashed EXCEPT ![p] = TRUE]
            /\ UNCHANGED <<rpc, rctx>>
       ELSE /\ rctx' = [rctx EXCEPT ![p] = rnode[p][rhead[p]].ctx]
            /\ rpc' = [rpc EXCEPT ![p] = "acq"]
            /\ UNCHANGED crashed
    /\ UNCHANGED <<res, shm, uaf, stub,
                   phase, apc, acall, lock, wmutex, spc, sctx, sq_depth, rq_depth,
                   send_buf, recv_buf, snode, rnode, shead, slast, rhead, rlast,
                   nsend, nrecv, mbox, unread, sdone, rdone, wret, state, dcb>>

\* a receiver whose failed wait ends the loop and sets the state, but calls nothing
msk_recv_thread_exit_silent(p) ==
    /\ Alive(p) /\ rpc[p] = "wait"
    /\ ~sem[SemKey(p, RECV_SEM)].exists
    /\ state' = [state EXCEPT ![p] = "MSK_CLOSED"]
    /\ rpc' = [rpc EXCEPT ![p] = "exited"]
    /\ UNCHANGED <<res, shm, uaf, stub,
                   phase, apc, acall, lock, wmutex, spc, sctx, rctx, sq_depth, rq_depth,
                   send_buf, recv_buf, snode, rnode, shead, slast, rhead, rlast,
                   nsend, nrecv, sem, mbox, unread, sdone, rdone, wret, dcb, crashed>>

\* msk_semop(trans, RECV_SEM, -1) fails (the set was removed): the loop ends;
\* trans->state = MSK_CLOSED; trans->disconnect_callback(trans); pthread_exit
msk_recv_thread_exit(p) ==
    /\ Alive(p) /\ rpc[p] = "wait"
    /\ ~sem[SemKey(p, RECV_SEM)].exists
    /\ state' = [state EXCEPT ![p] = "MSK_CLOSED"]
    /\ dcb' = [dcb EXCEPT ![p] = @ + 1]
    /\ rpc' = [rpc EXCEPT ![p] = "exited"]
    /\ UNCHANGED <<res, shm, uaf, stub,
                   phase, apc, acall, lock, wmutex, spc, sctx, rctx, sq_depth, rq_depth,
                   send_buf, recv_buf, snode, rnode, shead, slast, rhead, rlast,
                   nsend, nrecv, sem, mbox, unread, sdone, rdone, wret, crashed>>

\* msk_semop(trans, SHM_SEM, -1)
msk_recv_thread_acquire(p) ==
    /\ Alive(p) /\ rpc[p] = "acq"
    /\ CanDown(sem, SHM_SEM_KEY)
    /\ sem' = SemDown(sem, SHM_SEM_KEY)
    /\ phase' = ZeroWake(phase, sem')
    /\ rpc' = [rpc EXCEPT ![p] = "cs"]
    /\ UNCHANGED <<res, shm, uaf, stub,
                   apc, acall, lock, wmutex, spc, sctx, rctx, sq_depth, rq_depth,
                   send_buf, recv_buf, snode, rnode, shead, slast, rhead, rlast,
                   nsend, nrecv, mbox, unread, sdone, rdone, wret, state, dcb, crashed>>

\* ctx->pdata->size = shm->shm->size; memcpy(ctx->pdata->data, ..); semop(SHM_SEM, +1)
msk_recv_thread_copy(p) ==
    /\ Alive(p) /\ rpc[p] = "cs"
    /\ recv_buf' = [recv_buf EXCEPT ![p][rctx[p]].pdata = mbox]
    /\ unread' = IF unread = p THEN "none" ELSE unread
    /\ sem' = SemUp(sem, SHM_SEM_KEY)
    /\ rpc' = [rpc EXCEPT ![p] = "cb"]
    /\ UNCHANGED <<res, shm, uaf, stub,
                   phase, apc, acall, lock, wmutex, spc, sctx, rctx, sq_depth, rq_depth,
                   send_buf, snode, rnode, shead, slast, rhead, rlast, nsend, nrecv,
                   mbox, sdone, rdone, wret, state, dcb, crashed>>

\* the callback; free(sem->ctx_head); sem->ctx_head = sem->ctx_head->next (read from
\* the node just freed); all without trans->lock
msk_recv_thread_complete(p) ==
    /\ Alive(p) /\ rpc[p] = "cb"
    /\ LET c == recv_buf[p][rctx[p]]
           h == rhead[p]
       IN  /\ rdone' = [rdone EXCEPT ![p] = Append(@, [arg |-> c.callback_arg, pdata |-> c.pdata])]
           /\ wmutex' = msk_wait_callback(wmutex, p, c)
           /\ rnode' = [rnode EXCEPT ![p][h].live = FALSE]
           /\ \E nx \in FreedRead(rnode[p][h].next) :
                 rhead' = [rhead EXCEPT ![p] = nx]
    /\ uaf' = [uaf EXCEPT ![p] = @ \cup {"recv ctx_head->next read"}]
    /\ rpc' = [rpc EXCEPT ![p] = "unlink"]
    /\ UNCHANGED <<res, shm, stub,
                   phase, apc, acall, lock, spc, sctx, rctx, sq_depth, rq_depth,
                   send_buf, recv_buf, snode, shead, slast, rlast, nsend, nrecv, sem,
                   mbox, unread, sdone, wret, state, dcb, crashed>>

\* if (!sem->ctx_head) sem->ctx_last = NULL; ctx->used = 0; still without the lock
msk_recv_thread_unlink(p) ==
    /\ Alive(p) /\ rpc[p] = "unlink"
    /\ rlast' = [rlast EXCEPT ![p] = IF rhead[p] = NULL THEN NULL ELSE @]
    /\ recv_buf' = [recv_buf EXCEPT ![p][rctx[p]].used = FALSE]
    /\ rpc' = [rpc EXCEPT ![p] = "bcast"]
    /\ UNCHANGED <<res, shm, uaf, stub,
                   phase, apc, acall, lock, wmutex, spc, sctx, rctx, sq_depth, rq_depth,
                   send_buf, snode, rnode, shead, slast, rhead, nsend, nrecv, sem,
                   mbox, unread, sdone, rdone, wret, state, dcb, crashed>>

\* pthread_mutex_lock; pthread_cond_broadcast; pthread_mutex_unlock
msk_recv_thread_broadcast(p) ==
    /\ Alive(p) /\ rpc[p] = "bcast" /\ lock[p] = "free"
    /\ spc' = WakeSender(spc, p)
    /\ apc' = WakePoster(apc, p)
    /\ rpc' = [rpc EXCEPT ![p] = "wait"]
    /\ UNCHANGED <<res, shm, uaf, stub,
                   phase, acall, lock, wmutex, sctx, rctx, sq_depth, rq_depth,
                   send_buf, recv_buf, snode, rnode, shead, slast, rhead, rlast,
                   nsend, nrecv, sem, mbox, unread, sdone, rdone, wret, state, dcb,
                   crashed>>

\* ------------------------------------------------------------ context pool
\* a scan that takes every context for free, whatever its used flag
FreeSlotsIgnoringUsed(buf, depth) == 1..depth

\* for (i = 0, ctx = buf; i < depth; i++, ctx++) if (!ctx->used) break;
\* the contexts the scan can stop at (it stops at the first)
FreeSlots(buf, depth) == {i \in 1..depth : ~buf[i].used}

\* ------------------------------------------------------- msk_post_n_send
\* the body of msk_post_n_send once trans->lock is held: scan send_buf for the
\* first context not in use; none: pthread_cond_wait (the lock is released);
\* else fill the context, append a new node to the send queue, broadcast, unlock
PostSendBody(p, cb) ==
    LET free == FreeSlots(send_buf[p], sq_depth[p])
        i == Min(free)
        k == nsend[p] + 1
    IN  IF free = {}
        THEN /\ apc' = [apc EXCEPT ![p] = "psend_wait"]
             /\ acall' = [acall EXCEPT ![p] = [NoCall EXCEPT !.callback = cb]]
             /\ UNCHANGED <<send_buf, snode, shead, slast, nsend, spc>>
        ELSE /\ send_buf' = [send_buf EXCEPT ![p][i] =
                    [used |-> TRUE, pdata |-> Payload(p, k), callback |-> cb,
                     callback_arg |-> k]]
             /\ snode' = [snode EXCEPT
                    ![p] = IF slast[p] # NULL
                           THEN [@ EXCEPT ![k] = [ctx |-> i, next |-> NULL, live |-> TRUE],
                                          ![slast[p]].next = k]
                           ELSE [@ EXCEPT ![k] = [ctx |-> i, next |-> NULL, live |-> TRUE]]]
             /\ shead' = [shead EXCEPT ![p] = IF slast[p] # NULL THEN @ ELSE k]
             /\ slast' = [slast EXCEPT ![p] = k]
             /\ nsend' = [nsend EXCEPT ![p] = k]
             /\ spc' = WakeSender(spc, p)
             /\ apc' = [apc EXCEPT ![p] = IF cb = "wait" THEN "w_block" ELSE "idle"]
             /\ acall' = [acall EXCEPT ![p] =
                    IF cb = "wait" THEN [NoCall EXCEPT !.callback = cb, !.dir = "send", !.elem = k]
                    ELSE NoCall]

\* msk_post_n_send(.., callback, .., callback_arg) from the application thread
msk_post_n_send(p) ==
    /\ Alive(p) /\ phase[p] = "run" /\ apc[p] = "idle"
    /\ Posted < MaxPosts
    /\ lock[p] = "free"
    /\ PostSendBody(p, "user")
    /\ UNCHANGED <<res, shm, uaf, stub,
                   phase, lock, wmutex, sctx, rpc, rctx, sq_depth, rq_depth, recv_buf,
                   rnode, rhead, rlast, nrecv, sem, mbox, unread, sdone, rdone, wret,
                   state, dcb, crashed>>

\* msk_wait_n_send: pthread_mutex_lock(&lock) on the private mutex, then
\* msk_post_n_send with msk_wait_callback and &lock
msk_wait_n_send(p) ==
    /\ Alive(p) /\ phase[p] = "run" /\ apc[p] = "idle"
    /\ Posted < MaxPosts
    /\ lock[p] = "free"
    /\ wmutex' = [wmutex EXCEPT ![p] = TRUE]
    /\ PostSendBody(p, "wait")
    /\ UNCHANGED <<res, shm, uaf, stub,
                   phase, lock, sctx, rpc, rctx, sq_depth, rq_depth, recv_buf,
                   rnode, rhead, rlast, nrecv, sem, mbox, unread, sdone, rdone, wret,
                   state, dcb, crashed>>

\* msk_post_n_send, woken from pthread_cond_wait with the lock taken again: scan again
msk_post_n_send_resume(p) ==
    /\ Alive(p) /\ apc[p] = "psend_woken"
    /\ lock[p] = "free"
    /\ PostSendBody(p, acall[p].callback)
    /\ UNCHANGED <<res, shm, uaf, stub,
                   phase, lock, wmutex, sctx, rpc, rctx, sq_depth, rq_depth, recv_buf,
                   rnode, rhead, rlast, nrecv, sem, mbox, unread, sdone, rdone, wret,
                   state, dcb, crashed>>

\* ------------------------------------------------------- msk_post_n_recv
\* the first part of msk_post_n_recv once trans->lock is held: scan recv_buf;
\* none free: pthread_cond_wait; else fill the context, malloc the node and
\* read sem->ctx_last.  The lock stays held until msk_post_n_recv_tail.
PostRecvBody(p, cb) ==
    LET free == FreeSlots(recv_buf[p], rq_depth[p])
        i == Min(free)
        k == nrecv[p] + 1
    IN  IF free = {}
        THEN /\ apc' = [apc EXCEPT ![p] = "precv_wait"]
             /\ acall' = [acall EXCEPT ![p] = [NoCall EXCEPT !.callback = cb]]
             /\ UNCHANGED <<recv_buf, rnode, nrecv, lock>>
        ELSE /\ recv_buf' = [recv_buf EXCEPT ![p][i] =
                    [used |-> TRUE, pdata |-> NoData, callback |-> cb,
                     callback_arg |-> k]]
             /\ rnode' = [rnode EXCEPT ![p][k] = [ctx |-> i, next |-> NULL, live |-> TRUE]]
             /\ nrecv' = [nrecv EXCEPT ![p] = k]
             /\ lock' = [lock EXCEPT ![p] = "app"]
             /\ apc' = [apc EXCEPT ![p] = "precv_link"]
             /\ acall' = [acall EXCEPT ![p] =
                    [callback |-> cb, dir |-> "recv", elem |-> k, lastl |-> rlast[p]]]

\* msk_post_n_recv(.., callback, .., callback_arg); receives may be posted as soon
\* as msk_connect / msk_accept_one has returned
msk_post_n_recv(p) ==
    /\ Alive(p) /\ phase[p] \in {"setup", "run"} /\ apc[p] = "idle"
    /\ Posted < MaxPosts
    /\ lock[p] = "free"
    /\ PostRecvBody(p, "user")
    /\ UNCHANGED <<res, shm, uaf, stub,
                   phase, wmutex, spc, sctx, rpc, rctx, sq_depth, rq_depth, send_buf,
                   snode, shead, slast, rhead, rlast, nsend, sem, mbox, unread, sdone,
                   rdone, wret, state, dcb, crashed>>

\* msk_wait_n_recv: lock the private mutex, then msk_post_n_recv with msk_wait_callback
msk_wait_n_recv(p) ==
    /\ Alive(p) /\ phase[p] = "run" /\ apc[p] = "idle"
    /\ Posted < MaxPosts
    /\ lock[p] = "free"
    /\ wmutex' = [wmutex EXCEPT ![p] = TRUE]
    /\ PostRecvBody(p, "wait")
    /\ UNCHANGED <<res, shm, uaf, stub,
                   phase, spc, sctx, rpc, rctx, sq_depth, rq_depth, send_buf,
                   snode, shead, slast, rhead, rlast, nsend, sem, mbox, unread, sdone,
                   rdone, wret, state, dcb, crashed>>

\* msk_post_n_recv, woken from pthread_cond_wait with the lock taken again: scan again
msk_post_n_recv_resume(p) ==
    /\ Alive(p) /\ apc[p] = "precv_woken"
    /\ lock[p] = "free"
    /\ PostRecvBody(p, acall[p].callback)
    /\ UNCHANGED <<res, shm, uaf, stub,
                   phase, wmutex, spc, sctx, rpc, rctx, sq_depth, rq_depth, send_buf,
                   snode, shead, slast, rhead, rlast, nsend, sem, mbox, unread, sdone,
                   rdone, wret, state, dcb, crashed>>

\* if (sem->ctx_last) sem->ctx_last->next = elem; else sem->ctx_head = elem;
msk_post_n_recv_link(p) ==
    /\ Alive(p) /\ apc[p] = "precv_link"
    /\ IF acall[p].lastl # NULL
       THEN /\ rnode' = [rnode EXCEPT ![p][acall[p].lastl].next = acall[p].elem]
            /\ uaf' = [uaf EXCEPT ![p] = IF rnode[p][acall[p].lastl].live THEN @
                                         ELSE @ \cup {"recv ctx_last->next written"}]
            /\ UNCHANGED rhead
       ELSE /\ rhead' = [rhead EXCEPT ![p] = acall[p].elem]
            /\ UNCHANGED <<rnode, uaf>>
    /\ apc' = [apc EXCEPT ![p] = "precv_tail"]
    /\ UNCHANGED <<res, shm, stub,
                   phase, acall, lock, wmutex, spc, sctx, rpc, rctx, sq_depth, rq_depth,
                   send_buf, recv_buf, snode, shead, slast, rlast, nsend, nrecv, sem,
                   mbox, unread, sdone, rdone, wret, state, dcb, crashed>>

\* sem->ctx_last = elem; pthread_mutex_unlock(&trans->lock); return 0
msk_post_n_recv_tail(p) ==
    /\ Alive(p) /\ apc[p] = "precv_tail"
    /\ rlast' = [rlast EXCEPT ![p] = acall[p].elem]
    /\ lock' = [lock EXCEPT ![p] = "free"]
    /\ apc' = [apc EXCEPT ![p] = IF acall[p].callback = "wait" THEN "w_block" ELSE "idle"]
    /\ acall' = [acall EXCEPT ![p] =
           IF acall[p].callback = "wait"
           THEN [acall[p] EXCEPT !.lastl = NULL]
           ELSE NoCall]
    /\ UNCHANGED <<res, shm, uaf, stub,
                   phase, wmutex, spc, sctx, rpc, rctx, sq_depth, rq_depth, send_buf,
                   recv_buf, snode, rnode, shead, slast, rhead, nsend, nrecv, sem,
                   mbox, unread, sdone, rdone, wret, state, dcb, crashed>>

\* a second lock of the private mutex that does not wait for the unlock
WaitLockableAtOnce(p) == TRUE

\* the second pthread_mutex_lock(&lock) of msk_wait_n_* succeeds once the mutex is unlocked
WaitLockable(p) == ~wmutex[p]

\* msk_wait_n_send / msk_wait_n_recv after the post: pthread_mutex_lock(&lock)
\* succeeds once the callback has unlocked it; unlock, destroy, return
msk_wait_return(p) ==
    /\ Alive(p) /\ apc[p] = "w_block"
    /\ WaitLockable(p)
    /\ wret' = [wret EXCEPT ![p] = @ \cup {<<acall[p].dir, acall[p].elem>>}]
    /\ apc' = [apc EXCEPT ![p] = "idle"]
    /\ acall' = [acall EXCEPT ![p] = NoCall]
    /\ UNCHANGED <<res, shm, uaf, stub,
                   phase, lock, wmutex, spc, sctx, rpc, rctx, sq_depth, rq_depth,
                   send_buf, recv_buf, snode, rnode, shead, slast, rhead, rlast,
                   nsend, nrecv, sem, mbox, unread, sdone, rdone, state, dcb,
                   crashed>>

\* ----------------------------------------------------- msk_destroy_trans
\* msk_destroy_buffer: semctl(IPC_RMID) on the send_cq and recv_cq semaphore sets,
\* shmctl(IPC_RMID); the SHM_SEM set is not removed and the segment is not
\* detached.  The caller's session is over.
msk_destroy_trans(p) ==
    /\ Alive(p) /\ phase[p] = "run" /\ apc[p] = "idle"
    /\ sem' = [sem EXCEPT ![SemKey(p, SEND_SEM)] = [exists |-> FALSE, val |-> 0],
                          ![SemKey(p, RECV_SEM)] = [exists |-> FALSE, val |-> 0]]
    /\ phase' = [phase EXCEPT ![p] = "destroyed"]
    /\ res' = [res EXCEPT ![p].held = @ \cap DestroyLeaves]
    /\ shm' = FALSE
    /\ UNCHANGED <<uaf, stub,
                   apc, acall, lock, wmutex, spc, sctx, rpc, rctx, sq_depth, rq_depth,
                   send_buf, recv_buf, snode, rnode, shead, slast, rhead, rlast,
                   nsend, nrecv, mbox, unread, sdone, rdone, wret, state, dcb, crashed>>

\* ------------------------------------------------ the read / write stubs
\* a stub that posts a receive context before it returns
StubCallPosting(p, nm) ==
    /\ Alive(p) /\ phase[p] \in {"init", "setup", "run"} /\ apc[p] = "idle"
    /\ stub' = [stub EXCEPT ![p] = [name |-> nm, ret |-> "0"]]
    /\ recv_buf' = [recv_buf EXCEPT ![p][1].used = TRUE]
    /\ UNCHANGED <<phase, apc, acall, lock, wmutex, spc, sctx, rpc, rctx, sq_depth,
                   rq_depth, send_buf, snode, rnode, shead, slast, rhead, rlast, nsend,
                   nrecv, sem, mbox, unread, sdone, rdone, wret, state, dcb, crashed,
                   res, shm, uaf>>

\* msk_post_n_read, msk_post_n_write, msk_wait_n_read, msk_wait_n_write: return 0
StubCall(p, nm) ==
    /\ Alive(p) /\ phase[p] \in {"init", "setup", "run"} /\ apc[p] = "idle"
    /\ stub' = [stub EXCEPT ![p] = [name |-> nm, ret |-> "0"]]
    /\ UNCHANGED <<phase, apc, acall, lock, wmutex, spc, sctx, rpc, rctx, sq_depth, rq_depth,
                   send_buf, recv_buf, snode, rnode, shead, slast, rhead, rlast, nsend,
                   nrecv, sem, mbox, unread, sdone, rdone, wret, state, dcb, crashed,
                   res, shm, uaf>>

msk_post_n_read(p) == StubCall(p, "msk_post_n_read")

msk_post_n_write(p) == StubCall(p, "msk_post_n_write")

msk_wait_n_read(p) == StubCall(p, "msk_wait_n_read")

msk_wait_n_write(p) == StubCall(p, "msk_wait_n_write")

\* ------------------------------------------------------------------ Next
\* The message traffic of a connection whose setup succeeded.
Next ==
    \/ msk_accept_one
    \/ msk_connect
    \/ msk_finalize_accept_release
    \/ \E p \in Procs : FinalizeAcquire(p)
    \/ \E p \in Procs : FinalizeProbe(p)
    \/ \E p \in Procs : msk_send_thread_start(p)
    \/ \E p \in Procs : msk_send_thread_wake(p)
    \/ \E p \in Procs : msk_send_thread_acquire(p)
    \/ \E p \in Procs : msk_send_thread_write(p)
    \/ \E p \in Procs : msk_send_thread_complete(p)
    \/ \E p \in Procs : msk_recv_thread_wait(p)
    \/ \E p \in Procs : msk_recv_thread_exit(p)
    \/ \E p \in Procs : msk_recv_thread_acquire(p)
    \/ \E p \in Procs : msk_recv_thread_copy(p)
    \/ \E p \in Procs : msk_recv_thread_complete(p)
    \/ \E p \in Procs : msk_recv_thread_unlink(p)
    \/ \E p \in Procs : msk_recv_thread_broadcast(p)
    \/ \E p \in Procs : msk_post_n_send(p)
    \/ \E p \in Procs : msk_wait_n_send(p)
    \/ \E p \in Procs : msk_post_n_send_resume(p)
    \/ \E p \in Procs : msk_post_n_recv(p)
    \/ \E p \in Procs : msk_wait_n_recv(p)
    \/ \E p \in Procs : msk_post_n_recv_resume(p)
    \/ \E p \in Procs : msk_post_n_recv_link(p)
    \/ \E p \in Procs : msk_post_n_recv_tail(p)
    \/ \E p \in Procs : msk_wait_return(p)
    \/ \E p \in Procs : msk_destroy_trans(p)

Spec == Init /\ [][Next]_vars

\* The connection calls without message traffic: setup with every way it can
\* fail, the rendezvous, the stubs and destruction, with the worker steps that
\* need no posted request.
ControlNext ==
    \/ msk_accept_one
    \/ msk_connect
    \/ msk_finalize_accept_release
    \/ \E p \in Procs : StartTransFault(p)
    \/ \E p \in Procs : FinalizeAcquire(p)
    \/ \E p \in Procs : FinalizeProbe(p)
    \/ \E p \in Procs : msk_send_thread_start(p)
    \/ \E p \in Procs : msk_recv_thread_exit(p)
    \/ \E p \in Procs : msk_post_n_read(p)
    \/ \E p \in Procs : msk_post_n_write(p)
    \/ \E p \in Procs : msk_wait_n_read(p)
    \/ \E p \in Procs : msk_wait_n_write(p)
    \/ \E p \in Procs : msk_destroy_trans(p)

ControlSpec == Init /\ [][ControlNext]_vars

\* The scheduler runs every thread that can take a step: both workers, and the
\* application thread inside a call it has started.  Starting a new call
\* (connect, finalize, post, wait, destroy) is the application's choice.
Fairness ==
    \A p \in Procs :
        /\ WF_vars(msk_send_thread_start(p))
        /\ WF_vars(msk_send_thread_wake(p))
        /\ WF_vars(msk_send_thread_acquire(p))
        /\ WF_vars(msk_send_thread_write(p))
        /\ WF_vars(msk_send_thread_complete(p))
        /\ WF_vars(msk_recv_thread_wait(p))
        /\ WF_vars(msk_recv_thread_exit(p))
        /\ WF_vars(msk_recv_thread_acquire(p))
        /\ WF_vars(msk_recv_thread_copy(p))
        /\ WF_vars(msk_recv_thread_complete(p))
        /\ WF_vars(msk_recv_thread_unlink(p))
        /\ WF_vars(msk_recv_thread_broadcast(p))
        /\ WF_vars(FinalizeProbe(p))
        /\ WF_vars(msk_post_n_send_resume(p))
        /\ WF_vars(msk_post_n_recv_resume(p))
        /\ WF_vars(msk_post_n_recv_link(p))
        /\ WF_vars(msk_post_n_recv_tail(p))
        /\ WF_vars(msk_wait_return(p))

FairSpec == Spec /\ Fairness /\ WF_vars(msk_finalize_accept_release)

\* ---------------------------------------------------------- observations
\* the contexts of a pool whose used flag is set
InUse(buf) == {i \in 1..MaxDepth : buf[i].used}

\* the nodes reached from a queue head by following next, at most n of them
RECURSIVE Chain(_, _, _)
Chain(nodes, h, n) ==
    IF n = 0 \/ h \notin 1..MaxPosts THEN {}
    ELSE {h} \cup Chain(nodes, nodes[h].next, n - 1)

\* the nodes of the send queue and of the receive queue of process p
SendQueue(p) == Chain(snode[p], shead[p], MaxPosts)

RecvQueue(p) == Chain(rnode[p], rhead[p], MaxPosts)

\* the message-ready signals process p has posted: semop(SEND_SEM, +1) calls done
Signalled(p) == Len(sdone[p]) + (IF spc[p] = "cb" THEN 1 ELSE 0)

\* the receiver of p has taken a signal for a request it has not yet completed
Serving(p) == IF rpc[p] \in {"acq", "cs", "cb"} THEN 1 ELSE 0

\* the workers inside a mailbox access: semop(SHM_SEM, -1) done, semop(SHM_SEM, +1) not yet
InMailbox == {<<p, "send">> : p \in {q \in Procs : spc[q] = "cs"}}
             \cup {<<p, "recv">> : p \in {q \in Procs : rpc[q] = "cs"}}

\* ------------------------------------------------------------------ C1
\* C1: the k-th receive completion of a process delivers exactly the payload
\* (size and data) of the k-th send its peer posted.
C1_DeliveredInPostOrder ==
    \A p \in Procs : \A k \in 1..Len(rdone[p]) :
        rdone[p][k].pdata = Payload(Peer(p), k)

\* ------------------------------------------------------------------ C2
\* C2: per direction, completion callbacks fire in post order: the i-th callback
\* invoked is that of the i-th request posted, with none skipped.
C2_CompletionsInPostOrder ==
    \A p \in Procs :
        /\ \A i \in 1..Len(sdone[p]) : sdone[p][i] = i
        /\ \A i \in 1..Len(rdone[p]) : rdone[p][i].arg = i

\* ------------------------------------------------------------------ C3
\* C3: whenever the sender thread is suspended on the condition variable while
\* the send queue holds a request, it eventually leaves the wait (and so
\* services the request), provided the process stays alive.
C3_QueuedSendServiced ==
    \A p \in Procs :
        (Alive(p) /\ spc[p] = "wait" /\ shead[p] \in 1..MaxPosts)
            ~> (spc[p] # "wait" \/ ~Alive(p))

\* ------------------------------------------------------------------ C4
\* C4: at most one worker thread of the connection pair is inside a mailbox
\* access (between its semop(SHM_SEM, -1) and its semop(SHM_SEM, +1)).
C4_MailboxExclusive == Cardinality(InMailbox) <= 1

\* ------------------------------------------------------------------ C5
\* C5: a sender thread writes the mailbox only when the message written before
\* has been copied out by the receiver it was signalled to.
C5_WriteOnlyWhenDelivered ==
    [][\A p \in Procs : (spc[p] = "cs" /\ spc'[p] = "cb") => unread = "none"]_vars

\* ------------------------------------------------------------------ C6
\* C6: in each pool no more than the configured depth of contexts is in use; a
\* post enqueues a request only when a context of its pool was free (with the
\* pool full it stays in the call until a worker has released one); and once
\* every posted request of a direction has been completed and recycled, no
\* context of that pool is in use.
C6_PoolInv ==
    \A p \in Procs :
        /\ InUse(send_buf[p]) \subseteq 1..sq_depth[p]
        /\ InUse(recv_buf[p]) \subseteq 1..rq_depth[p]
        /\ Len(sdone[p]) = nsend[p] => InUse(send_buf[p]) = {}
        /\ (Len(rdone[p]) = nrecv[p] /\ rpc[p] # "unlink") => InUse(recv_buf[p]) = {}

C6_PostStep ==
    \A p \in Procs :
        /\ nsend'[p] # nsend[p] => Cardinality(InUse(send_buf[p])) < sq_depth[p]
        /\ nrecv'[p] # nrecv[p] => Cardinality(InUse(recv_buf[p])) < rq_depth[p]

C6_PoolBackpressure == []C6_PoolInv /\ [][C6_PostStep]_vars

\* a post that waited on a full pool has been woken and finds a released context
C6_Witness ==
    \E p \in Procs :
        \/ apc[p] = "psend_woken" /\ nsend[p] >= sq_depth[p]
              /\ Cardinality(InUse(send_buf[p])) < sq_depth[p]
        \/ apc[p] = "precv_woken" /\ nrecv[p] >= rq_depth[p]
              /\ Cardinality(InUse(recv_buf[p])) < rq_depth[p]

\* ------------------------------------------------------------------ C7
\* C7: msk_wait_n_send has returned only if the peer's receiver has copied the
\* same payload out of the mailbox into a posted buffer.
C7_WaitSendAfterPeerCopy ==
    \A p \in Procs : \A k \in 1..MaxPosts :
        <<"send", k>> \in wret[p] =>
            \/ \E j \in 1..MaxDepth : recv_buf[Peer(p)][j].pdata = Payload(p, k)
            \/ \E i \in 1..Len(rdone[Peer(p)]) : rdone[Peer(p)][i].pdata = Payload(p, k)

\* ------------------------------------------------------------------ C8
\* C8: a msk_wait_n_send / msk_wait_n_recv call has returned only if the worker
\* has invoked the callback of the request that call posted (for a receive,
\* with the buffer filled from the mailbox); and once that callback has fired
\* the caller is no longer held: the private mutex is unlocked.
C8_WaitReturnsAfterCallback ==
    \A p \in Procs :
        /\ \A k \in 1..MaxPosts :
              /\ <<"send", k>> \in wret[p] => \E i \in 1..Len(sdone[p]) : sdone[p][i] = k
              /\ <<"recv", k>> \in wret[p] =>
                    \E i \in 1..Len(rdone[p]) :
                        rdone[p][i].arg = k /\ rdone[p][i].pdata # NoData
        /\ (apc[p] = "w_block" /\ acall[p].dir = "send"
              /\ \E i \in 1..Len(sdone[p]) : sdone[p][i] = acall[p].elem) => ~wmutex[p]
        /\ (apc[p] = "w_block" /\ acall[p].dir = "recv"
              /\ \E i \in 1..Len(rdone[p]) : rdone[p][i].arg = acall[p].elem) => ~wmutex[p]

\* a msk_wait_n_send and a msk_wait_n_recv call have both returned
C8_Witness ==
    \E p, q \in Procs : \E k, j \in 1..MaxPosts :
        <<"send", k>> \in wret[p] /\ <<"recv", j>> \in wret[q]

\* ------------------------------------------------------------------ C9
\* C9: once the receiver's wait on its message-ready semaphore has failed, the
\* receiver loop has ended, trans->state is MSK_CLOSED and the disconnect
\* callback has been invoked exactly once; before that it is invoked never
\* and the state is not MSK_CLOSED.
C9_DisconnectOnce ==
    \A p \in Procs :
        IF rpc[p] = "exited"
        THEN state[p] = "MSK_CLOSED" /\ dcb[p] = 1
        ELSE state[p] = "MSK_INIT" /\ dcb[p] = 0

\* the peer removed the semaphore sets and the receiver left its loop
C9_Witness ==
    \E p \in Procs :
        /\ phase[Peer(p)] = "destroyed"
        /\ ~sem[SemKey(p, RECV_SEM)].exists
        /\ rpc[p] = "exited" /\ state[p] = "MSK_CLOSED" /\ dcb[p] = 1

\* ----------------------------------------------------------------- C10
\* C10: msk_finalize_accept / msk_finalize_connect has returned only if the
\* peer has completed its msk_connect / msk_accept_one.
C10_RendezvousAfterPeerAttach ==
    \A p \in Procs : phase[p] \in {"run", "destroyed"} => phase[Peer(p)] # "init"

\* ----------------------------------------------------------------- C11
\* C11: once both processes have destroyed their connection, nothing of the
\* session is left: the shared-memory segment and all three semaphore sets are
\* removed and neither process holds anything msk_setup_buffer acquired.
C11_DestroyLeavesNothing ==
    (\A p \in Procs : phase[p] = "destroyed") =>
        /\ ~shm
        /\ \A k \in Keys : ~sem[k].exists
        /\ \A p \in Procs : res[p].held = {}

\* ----------------------------------------------------------------- C12
\* C12: when a step of msk_setup_buffer has failed, msk_connect / msk_accept_one
\* has returned an error, the trans holds nothing of what the call acquired,
\* and no worker thread was created.
C12_SetupFailureUnwinds ==
    \A p \in Procs :
        res[p].fault # "none" =>
            /\ res[p].ret \notin {"0", "none"}
            /\ res[p].held = {}
            /\ ~res[p].threads

\* ----------------------------------------------------------------- C13
\* C13: a call of msk_post_n_read, msk_post_n_write, msk_wait_n_read or
\* msk_wait_n_write returns 0 in one step and changes nothing else: pools,
\* queues, mailbox, semaphores, callbacks, locks and threads are as before.
C13_StubsChangeNothing ==
    [][\A p \in Procs :
          stub'[p] # stub[p] =>
              /\ stub'[p].ret = "0"
              /\ UNCHANGED <<phase, apc, acall, lock, wmutex, spc, sctx, rpc, rctx,
                             sq_depth, rq_depth, send_buf, recv_buf, snode, rnode,
                             shead, slast, rhead, rlast, nsend, nrecv, sem, mbox,
                             unread, sdone, rdone, wret, state, dcb, crashed, res,
                             shm, uaf>>]_vars

\* both processes are connected and have each had a stub call return
C13_Witness ==
    /\ \A p \in Procs : phase[p] = "run" /\ spc[p] = "wait"
    /\ stub["srv"] = [name |-> "msk_post_n_read", ret |-> "0"]
    /\ stub["cli"] = [name |-> "msk_wait_n_write", ret |-> "0"]

\* ----------------------------------------------------------------- C14
\* C14: pool and queue accesses are made under trans->lock, so an enqueue never
\* interleaves with a dequeue of the same queue: while msk_post_n_recv is
\* between reading ctx_last and storing the new tail, the receiver thread is
\* not between freeing the head and clearing the context's used flag.
C14_EnqueueExcludesDequeue ==
    \A p \in Procs :
        ~(apc[p] \in {"precv_link", "precv_tail"} /\ rpc[p] \in {"cb", "unlink"})

\* ----------------------------------------------------------------- C15
\* C15: every context referenced by a node of a pending queue has its used flag
\* set; and when a used flag is cleared, the node that referenced the context
\* is no longer in the queue and has been freed.
C15_QueuedInv ==
    \A p \in Procs :
        /\ \A n \in SendQueue(p) : send_buf[p][snode[p][n].ctx].used
        /\ \A n \in RecvQueue(p) : recv_buf[p][rnode[p][n].ctx].used

C15_ClearStep ==
    \A p \in Procs : \A i \in 1..MaxDepth :
        /\ (send_buf[p][i].used /\ ~send_buf'[p][i].used) =>
              \A n \in 1..MaxPosts :
                  snode'[p][n].ctx = i => (~snode'[p][n].live /\ n \notin SendQueue(p)')
        /\ (recv_buf[p][i].used /\ ~recv_buf'[p][i].used) =>
              \A n \in 1..MaxPosts :
                  rnode'[p][n].ctx = i => (~rnode'[p][n].live /\ n \notin RecvQueue(p)')

C16_NoFreedNodeAccess == \A p \in Procs : uaf[p] = {}

\* ----------------------------------------------------------------- C17
\* C17: a message-ready signal taken while the receive queue is empty is used
\* up: the receiver reads no mailbox, completes no context and waits again;
\* and every receive completion uses a signal of its own, so a receive posted
\* later is completed only after a further signal.
C17_EmptyStep ==
    \A p \in Procs :
        (rpc[p] = "wait" /\ rhead[p] = NULL
            /\ sem'[SemKey(p, RECV_SEM)].val < sem[SemKey(p, RECV_SEM)].val) =>
                /\ rpc'[p] = "wait"
                /\ UNCHANGED <<mbox, unread, recv_buf, rdone, rctx, rhead, rlast, rnode>>

C17_SignalPerCompletion ==
    \A p \in Procs :
        Len(rdone[p]) + Serving(p) + sem[SemKey(p, RECV_SEM)].val <= Signalled(Peer(p))

C17_SignalOnEmptyQueueLost == []C17_SignalPerCompletion /\ [][C17_EmptyStep]_vars

\* the peer's one signal was taken on an empty queue; the receive posted since
\* then stays queued and uncompleted
C17_Witness ==
    \E p \in Procs :
        /\ phase[p] = "run" /\ phase[Peer(p)] = "run"
        /\ Signalled(Peer(p)) = 1 /\ spc[Peer(p)] = "wait"
        /\ sem[SemKey(p, RECV_SEM)].exists /\ sem[SemKey(p, RECV_SEM)].val = 0
        /\ rpc[p] = "wait" /\ rdone[p] = <<>>
        /\ nrecv[p] = 1 /\ rhead[p] = 1 /\ apc[p] = "idle"

C19_NeverOwnMessage ==
    \A p \in Procs : \A i \in 1..Len(rdone[p]) :
        rdone[p][i].pdata \notin {Payload(p, k) : k \in 1..MaxPosts}

\* ----------------------------------------------------------------- C20
\* C20: once both msk_accept_one and msk_connect have been called and both
\* processes are in (or through) their finalize call, both finalize calls
\* eventually have returned, whatever the order of the four calls and without
\* any send or receive being posted (unless a process destroys its connection
\* first).
C20_RendezvousCompletes ==
    (\A p \in Procs : phase[p] \in {"fin_zero", "fin_zwait", "fin_rel", "run"})
        ~> \/ \A p \in Procs : phase[p] = "run"
           \/ \E p \in Procs : phase[p] = "destroyed"
           \/ Posted > 0

\* ----------------------------------------------------------------- C21
\* C21: every context whose used flag is set is referenced by exactly one node
\* reached from the head of its direction's queue, unless it is the request the
\* worker is completing (its node freed, its flag about to be cleared) or the
\* request a post call holding trans->lock has filled in and not yet linked:
\* no posted request drops out of a queue uncompleted, also when
\* msk_post_n_recv appends while the receiver thread removes the head.
C21_InUseContextsQueued ==
    \A p \in Procs : Alive(p) =>
        /\ \A i \in InUse(send_buf[p]) :
              Cardinality({n \in SendQueue(p) : snode[p][n].ctx = i}) = 1
        /\ \A i \in InUse(recv_buf[p]) :
              \/ Cardinality({n \in RecvQueue(p) : rnode[p][n].ctx = i}) = 1
              \/ rpc[p] = "unlink" /\ rctx[p] = i
              \/ apc[p] = "precv_link" /\ rnode[p][acall[p].elem].ctx = i

====
